---- MODULE Spec2Model ----
(***************************************************************************)
(* Model of the svg library (src/svg.h, src/svg.cpp): Point, RenderContext,*)
(* the Object hierarchy (Circle, Polyline, Text) and Document.             *)
(*                                                                         *)
(* Text written to a stream is a sequence of one-character strings, so     *)
(* that spaces, quotes and brackets can be counted.  Real coordinates are  *)
(* drawn from small sets of integral values; operator<< prints such a      *)
(* double as its decimal digits with a leading '-' when negative.          *)
(***************************************************************************)
EXTENDS Integers, Sequences, FiniteSets, TLC

VARIABLES
    all_obj_,   \* Document::all_obj_, the vector Document::Render iterates
    objects_,   \* the vector Document::Add appends to
    added,      \* every shape handed to Add/AddPtr so far, in call order
    obj,        \* the shape object the caller is configuring with setters
    ctxs,       \* RenderContext values: the constructed one, then each Indented() result
    out,        \* the std::ostream handed to the last Render/RenderIndent call
    call        \* the last operation and how it ended

vars == <<all_obj_, objects_, added, obj, ctxs, out, call>>

\* ---------------------------------------------------------------- bounds
MaxObjs == 2
MaxPoints == 3
MaxLen == 1
MaxDepth == 2

\* ------------------------------------------------------- sequence helpers
RECURSIVE Flatten(_)
Flatten(ss) == IF ss = <<>> THEN <<>> ELSE Head(ss) \o Flatten(Tail(ss))

RECURSIVE Repeat(_, _)
Repeat(x, n) == IF n <= 0 THEN <<>> ELSE <<x>> \o Repeat(x, n - 1)

Min(a, b) == IF a < b THEN a ELSE b

IsPrefix(p, s) == Len(p) <= Len(s) /\ SubSeq(s, 1, Len(p)) = p

RECURSIVE SeqsUpTo(_, _)
SeqsUpTo(A, n) ==
    IF n = 0 THEN {<<>>}
    ELSE LET shorter == SeqsUpTo(A, n - 1)
         IN  shorter \cup {Append(s, a) : s \in shorter, a \in A}

\* ------------------------------------------------------------- the stream
\* A std::ostream over a device that, when `limited`, accepts only `room`
\* more characters.  badbit is sticky; exc is "exceptions() contains badbit".
NewSink(limited, room, exc) ==
    [buf |-> <<>>, limited |-> limited, room |-> room, bad |-> FALSE, exc |-> exc]

GoodSink == NewSink(FALSE, 0, FALSE)

\* One insertion (operator<< or put) of the characters cs.  A stream that is
\* not good() writes nothing; a short write sets badbit, which throws when
\* the exception mask asks for it.
Put(s, cs) ==
    IF s.bad THEN [sink |-> s, threw |-> FALSE]
    ELSE LET n == IF s.limited THEN Min(Len(cs), s.room) ELSE Len(cs)
             short == n < Len(cs)
         IN  [sink  |-> [buf     |-> s.buf \o SubSeq(cs, 1, n),
                         limited |-> s.limited,
                         room    |-> IF s.limited THEN s.room - n ELSE s.room,
                         bad     |-> short,
                         exc     |-> s.exc],
              threw |-> short /\ s.exc]

\* The same function body run to its end, or to the insertion that threw:
\* the insertions `ops` are attempted one after the other.
RECURSIVE WriteFrom(_, _, _)
WriteFrom(st, ops, i) ==
    IF i > Len(ops) \/ st.threw THEN st
    ELSE LET r == Put(st.sink, ops[i])
         IN  WriteFrom([sink      |-> r.sink,
                        attempts  |-> i,
                        failed_at |-> IF st.failed_at = 0 /\ r.sink.bad
                                      THEN i ELSE st.failed_at,
                        threw     |-> r.threw], ops, i + 1)

\* A variant that returns as soon as the stream reports a failure.
RECURSIVE WriteUntilBad(_, _, _)
WriteUntilBad(st, ops, i) ==
    IF i > Len(ops) \/ st.threw \/ st.sink.bad THEN st
    ELSE LET r == Put(st.sink, ops[i])
         IN  WriteUntilBad([sink      |-> r.sink,
                            attempts  |-> i,
                            failed_at |-> IF r.sink.bad THEN i ELSE 0,
                            threw     |-> r.threw], ops, i + 1)

WriteAllStopOnFail(s, ops) ==
    WriteUntilBad([sink |-> s, attempts |-> 0, failed_at |-> 0, threw |-> FALSE], ops, 1)

WriteAll(s, ops) ==
    WriteFrom([sink |-> s, attempts |-> 0, failed_at |-> 0, threw |-> FALSE], ops, 1)

\* --------------------------------------------------------- number output
DigitChars == <<"0", "1", "2", "3", "4", "5", "6", "7", "8", "9">>

RECURSIVE FmtUnsigned(_)
FmtUnsigned(n) ==
    IF n < 10 THEN <<DigitChars[n + 1]>>
    ELSE Append(FmtUnsigned(n \div 10), DigitChars[(n % 10) + 1])

\* operator<<(double) for an integral value of at most six digits
FmtDouble(v) == IF v < 0 THEN <<"-">> \o FmtUnsigned(0 - v) ELSE FmtUnsigned(v)

\* -------------------------------------------------------------------- Point
Point(x, y) == [x |-> x, y |-> y]

\* ------------------------------------------------------------ RenderContext
RenderContext1(o) == [out |-> o, indent_step |-> 0, indent |-> 0]

RenderContext3(o, indent_step, indent) ==
    [out |-> o, indent_step |-> indent_step, indent |-> indent]

\* A variant that goes one column deeper instead of one step deeper.
IndentedByOne(c) == [out |-> c.out, indent_step |-> c.indent_step, indent |-> c.indent + 1]

Indented(c) ==
    [out |-> c.out, indent_step |-> c.indent_step, indent |-> c.indent + c.indent_step]

\* the put(' ') calls of RenderIndent, one insertion each
RenderIndentOps(c) == Repeat(<<" ">>, c.indent)

\* ------------------------------------------------------------------- Circle
CircleDefault == [kind |-> "circle", center_ |-> Point(0, 0), radius_ |-> 1]

SetCenter(c, center) == [c EXCEPT !.center_ = center]

SetRadius(c, radius) == [c EXCEPT !.radius_ = radius]

CircleRenderObjectOps(c) ==
    << <<"<","c","i","r","c","l","e"," ","c","x","=","\"">>, FmtDouble(c.center_.x), <<"\""," ","c","y","=","\"">>, FmtDouble(c.center_.y), <<"\""," ">>,
       <<"r","=","\"">>, FmtDouble(c.radius_), <<"\""," ">>,
       <<"/",">">> >>

\* ----------------------------------------------------------------- Polyline
PolylineDefault == [kind |-> "polyline", all_point_ |-> <<>>]

AddPoint(p, point) == [p EXCEPT !.all_point_ = Append(@, point)]

RECURSIVE PolylinePointOps(_)
PolylinePointOps(pts) ==
    IF pts = <<>> THEN <<>>
    ELSE << FmtDouble(Head(pts).x), <<",">>, FmtDouble(Head(pts).y), <<" ">> >>
         \o PolylinePointOps(Tail(pts))

PolylineRenderObjectOps(p) ==
    << <<"p","o","l","y","l","i","n","e"," ","p","o","i","n","t","s","=","\"">> >> \o PolylinePointOps(p.all_point_) \o << <<"/",">">> >>

\* --------------------------------------------------------------------- Text
\* An optional string is a sequence of no or one string.
TextDefault ==
    [kind |-> "text", pos_ |-> Point(0, 0), offset_ |-> Point(0, 0), font_size |-> 1,
     font_family_ |-> <<>>, font_weight_ |-> <<>>, data_ |-> <<>>]

SetPosition(t, pos) == [t EXCEPT !.pos_ = pos]

SetOffset(t, offset) == [t EXCEPT !.offset_ = offset]

SetFontSize(t, size) == [t EXCEPT !.font_size = size]

SetFontFamily(t, font_family) == [t EXCEPT !.font_family_ = <<font_family>>]

SetFontWeight(t, font_weight) == [t EXCEPT !.font_weight_ = <<font_weight>>]

SetData(t, data) == [t EXCEPT !.data_ = data]

\* every occurrence of the character c in s replaced by the characters r
RECURSIVE ReplaceAll(_, _, _)
ReplaceAll(s, c, r) ==
    IF s = <<>> THEN <<>>
    ELSE (IF Head(s) = c THEN r ELSE <<Head(s)>>) \o ReplaceAll(Tail(s), c, r)

\* A variant that replaces the ampersand last.
EscapeAmpLast(s) ==
    ReplaceAll(ReplaceAll(ReplaceAll(ReplaceAll(ReplaceAll(s,
        "<", <<"&","l","t",";">>), ">", <<"&","g","t",";">>), "\"", <<"&","q","u","o","t",";">>), "'", <<"&","a","p","o","s",";">>), "&", <<"&","a","m","p",";">>)

\* the five substitutions, applied one after the other in the stated order
Escape(s) ==
    ReplaceAll(ReplaceAll(ReplaceAll(ReplaceAll(ReplaceAll(s,
        "&", <<"&","a","m","p",";">>), "<", <<"&","l","t",";">>), ">", <<"&","g","t",";">>), "\"", <<"&","q","u","o","t",";">>), "'", <<"&","a","p","o","s",";">>)

\* A variant that always writes the two optional attributes.
TextRenderObjectOpsAlways(t) ==
    << <<"<","t","e","x","t"," ","x","=","\"">>, FmtDouble(t.pos_.x), <<"\""," ","y","=","\"">>, FmtDouble(t.pos_.y),
       <<"\""," ","d","x","=","\"">>, FmtDouble(t.offset_.x), <<"\""," ","d","y","=","\"">>, FmtDouble(t.offset_.y),
       <<"\""," ","f","o","n","t","-","s","i","z","e","=","\"">>, FmtUnsigned(t.font_size), <<"\"">>,
       <<" ","f","o","n","t","-","f","a","m","i","l","y","=","\"">>, Escape(Flatten(t.font_family_)), <<"\"">>,
       <<" ","f","o","n","t","-","w","e","i","g","h","t","=","\"">>, Escape(Flatten(t.font_weight_)), <<"\"">>,
       <<">">>, Escape(t.data_), <<"<","/","t","e","x","t",">">> >>

TextRenderObjectOps(t) ==
    << <<"<","t","e","x","t"," ","x","=","\"">>, FmtDouble(t.pos_.x), <<"\""," ","y","=","\"">>, FmtDouble(t.pos_.y),
       <<"\""," ","d","x","=","\"">>, FmtDouble(t.offset_.x), <<"\""," ","d","y","=","\"">>, FmtDouble(t.offset_.y),
       <<"\""," ","f","o","n","t","-","s","i","z","e","=","\"">>, FmtUnsigned(t.font_size), <<"\"">> >>
    \o (IF t.font_family_ = <<>> THEN <<>>
        ELSE << <<" ","f","o","n","t","-","f","a","m","i","l","y","=","\"">>, Escape(t.font_family_[1]), <<"\"">> >>)
    \o (IF t.font_weight_ = <<>> THEN <<>>
        ELSE << <<" ","f","o","n","t","-","w","e","i","g","h","t","=","\"">>, Escape(t.font_weight_[1]), <<"\"">> >>)
    \o << <<">">>, Escape(t.data_), <<"<","/","t","e","x","t",">">> >>

\* ------------------------------------------------------------------- Object
\* the virtual call RenderObject(context)
RenderObjectOps(o) ==
    CASE o.kind = "circle"   -> CircleRenderObjectOps(o)
      [] o.kind = "polyline" -> PolylineRenderObjectOps(o)
      [] o.kind = "text"     -> TextRenderObjectOps(o)

\* Object::Render: the indent, the element, then std::endl
ObjectRenderOps(o, c) == RenderIndentOps(c) \o RenderObjectOps(o) \o << <<"\n">> >>

\* ----------------------------------------------------------------- Document
\* Document::Render hands the stream itself to Object::Render, which builds
\* the context with the one-argument constructor.
RECURSIVE DocumentRenderOps(_)
DocumentRenderOps(objs) ==
    IF objs = <<>> THEN <<>>
    ELSE ObjectRenderOps(Head(objs), RenderContext1("os")) \o DocumentRenderOps(Tail(objs))

\* ------------------------------------------------------------ input values
Centers == {Point(0, 0), Point(20, 30), Point(-5, 7)}
Radii == {1, 15}
PolyPoints == {Point(0, 0), Point(10, 10), Point(20, 0)}
TextPositions == {Point(0, 0), Point(10, 20)}
TextOffsets == {Point(0, 0), Point(0, 5)}
FontSizes == {12, 14}
Alphabet == {"a", "&", "<", ">", "\"", "'"}
AttrStrs == {<<>>} \cup {<<c>> : c \in Alphabet}
DataStrs == SeqsUpTo(Alphabet, MaxLen) \cup {<<"h","i">>}
Streams == {"os", "os2"}
IndentSteps == {-2, 0, 1, 2, 3}
Indents == {-1, 0, 2, 3, 4}
FailAfter == {0, 5, 33}

\* the streams a caller hands to Document::Render: one that takes everything,
\* and devices that reject what comes after the first 0, 5 or 33 characters
RenderSinks ==
    {NewSink(FALSE, 0, FALSE)} \cup {NewSink(TRUE, n, e) : n \in FailAfter, e \in BOOLEAN}

\* shapes a caller hands to Add/AddPtr, built with the fluent setters
SampleShapes ==
    { CircleDefault,
      SetRadius(SetCenter(CircleDefault, Point(20, 30)), 15),
      PolylineDefault,
      AddPoint(AddPoint(PolylineDefault, Point(0, 0)), Point(10, 10)),
      SetData(SetFontSize(TextDefault, 12), <<"h","i">>) }

\* contexts a caller hands to Object::Render
ShapeContexts == {RenderContext1("os"), RenderContext3("os", 2, 2)}

\* -------------------------------------------------------------------- state
NoObj == [kind |-> "none"]

\* The record of the last call: whether it threw, how many insertions it
\* attempted out of nops, which one failed first (0: none), the receiver and
\* indent of an Object::Render, and whether the call before it was a Render too.
Called(op) ==
    [op |-> op, threw |-> FALSE, attempts |-> 0, failed_at |-> 0, nops |-> 0,
     self |-> NoObj, indent |-> 0, again |-> FALSE]

Rendered(op, r, ops, self, indent) ==
    [op |-> op, threw |-> r.threw, attempts |-> r.attempts, failed_at |-> r.failed_at,
     nops |-> Len(ops), self |-> self, indent |-> indent, again |-> call.op = op]

Init ==
    /\ all_obj_ = <<>>
    /\ objects_ = <<>>
    /\ added = <<>>
    /\ obj = NoObj
    /\ ctxs = <<>>
    /\ out = GoodSink
    /\ call = Called("none")

\* --------------------------------------------------------- Document actions
Document_Add ==
    \E o \in SampleShapes :
        /\ Len(added) < MaxObjs
        /\ objects_' = Append(objects_, o)
        /\ added' = Append(added, o)
        /\ call' = Called("Add")
        /\ UNCHANGED <<all_obj_, obj, ctxs, out>>

Document_AddPtr ==
    \E o \in SampleShapes :
        /\ Len(added) < MaxObjs
        /\ all_obj_' = Append(all_obj_, o)
        /\ added' = Append(added, o)
        /\ call' = Called("AddPtr")
        /\ UNCHANGED <<objects_, obj, ctxs, out>>

\* A variant that moves the children out of the document while rendering.
Document_RenderConsuming ==
    \E sink \in RenderSinks :
        LET ops == DocumentRenderOps(all_obj_)
            r == WriteAll(sink, ops)
        IN  /\ out' = r.sink
            /\ call' = Rendered("Render", r, ops, NoObj, 0)
            /\ all_obj_' = <<>>
            /\ UNCHANGED <<objects_, added, obj, ctxs>>

Document_Render ==
    \E sink \in RenderSinks :
        LET ops == DocumentRenderOps(all_obj_)
            r == WriteAll(sink, ops)
        IN  /\ out' = r.sink
            /\ call' = Rendered("Render", r, ops, NoObj, 0)
            /\ UNCHANGED <<all_obj_, objects_, added, obj, ctxs>>

Next == Document_Add \/ Document_AddPtr \/ Document_Render

Spec == Init /\ [][Next]_vars

\* ------------------------------------------------------------ shape actions
doc_vars == <<all_obj_, objects_, added>>

New(o) ==
    /\ obj' = o
    /\ out' = GoodSink
    /\ call' = Called("New")
    /\ UNCHANGED <<doc_vars, ctxs>>

Set(kind, o) ==
    /\ obj.kind = kind
    /\ obj' = o
    /\ call' = Called("Set")
    /\ UNCHANGED <<doc_vars, ctxs, out>>

Circle_New == New(CircleDefault)

Circle_SetCenter == \E p \in Centers : Set("circle", SetCenter(obj, p))

Circle_SetRadius == \E r \in Radii : Set("circle", SetRadius(obj, r))

Polyline_New == New(PolylineDefault)

Polyline_AddPoint ==
    \E p \in PolyPoints :
        /\ obj.kind = "polyline"
        /\ Len(obj.all_point_) < MaxPoints
        /\ Set("polyline", AddPoint(obj, p))

Text_New == New(TextDefault)

Text_SetPosition == \E p \in TextPositions : Set("text", SetPosition(obj, p))

Text_SetOffset == \E p \in TextOffsets : Set("text", SetOffset(obj, p))

Text_SetFontSize == \E n \in FontSizes : Set("text", SetFontSize(obj, n))

Text_SetFontFamily == \E f \in AttrStrs : Set("text", SetFontFamily(obj, f))

Text_SetFontWeight == \E w \in AttrStrs : Set("text", SetFontWeight(obj, w))

Text_SetData == \E d \in DataStrs : Set("text", SetData(obj, d))

\* obj.Render(c) on a temporary: the shape is gone after the call
Object_Render ==
    \E c \in ShapeContexts :
        /\ obj.kind # "none"
        /\ LET ops == ObjectRenderOps(obj, c)
               r == WriteAll(GoodSink, ops)
           IN  /\ out' = r.sink
               /\ call' = Rendered("ObjectRender", r, ops, obj, c.indent)
        /\ obj' = NoObj
        /\ UNCHANGED <<doc_vars, ctxs>>

NextShape ==
    \/ Circle_New \/ Circle_SetCenter \/ Circle_SetRadius
    \/ Polyline_New \/ Polyline_AddPoint
    \/ Text_New \/ Text_SetPosition \/ Text_SetOffset \/ Text_SetFontSize
    \/ Text_SetFontFamily \/ Text_SetFontWeight \/ Text_SetData
    \/ Object_Render

SpecShape == Init /\ [][NextShape]_vars

\* ---------------------------------------------------- RenderContext actions
RenderContext_New1 ==
    \E o \in Streams :
        /\ ctxs' = <<RenderContext1(o)>>
        /\ out' = GoodSink
        /\ call' = Called("RenderContext")
        /\ UNCHANGED <<doc_vars, obj>>

RenderContext_New3 ==
    \E o \in Streams, step \in IndentSteps, indent \in Indents \cup {0} :
        /\ ctxs' = <<RenderContext3(o, step, indent)>>
        /\ out' = GoodSink
        /\ call' = Called("RenderContext")
        /\ UNCHANGED <<doc_vars, obj>>

\* c.Indented() on the newest context; the receiver stays in ctxs
RenderContext_Indented ==
    /\ ctxs # <<>>
    /\ Len(ctxs) <= MaxDepth
    /\ ctxs' = Append(ctxs, Indented(ctxs[Len(ctxs)]))
    /\ out' = GoodSink
    /\ call' = Called("Indented")
    /\ UNCHANGED <<doc_vars, obj>>

RenderContext_RenderIndent ==
    /\ ctxs # <<>>
    /\ LET c == ctxs[Len(ctxs)]
           ops == RenderIndentOps(c)
           r == WriteAll(GoodSink, ops)
       IN  /\ out' = r.sink
           /\ call' = Rendered("RenderIndent", r, ops, NoObj, c.indent)
    /\ UNCHANGED <<doc_vars, obj, ctxs>>

NextContext ==
    \/ RenderContext_New1 \/ RenderContext_New3
    \/ RenderContext_Indented \/ RenderContext_RenderIndent

SpecContext == Init /\ [][NextContext]_vars

\* ====================================================== checked properties
\* ------------------------------------------------- reading a written text
\* the lines of a text, without their newlines (a last unterminated line counts)
RECURSIVE SplitLines(_, _)
SplitLines(s, cur) ==
    IF s = <<>> THEN (IF cur = <<>> THEN <<>> ELSE <<cur>>)
    ELSE IF Head(s) = "\n" THEN <<cur>> \o SplitLines(Tail(s), <<>>)
    ELSE SplitLines(Tail(s), Append(cur, Head(s)))

Lines(s) == SplitLines(s, <<>>)

RECURSIVE LeadingSpaces(_)
LeadingSpaces(s) ==
    IF s # <<>> /\ Head(s) = " " THEN 1 + LeadingSpaces(Tail(s)) ELSE 0

StripIndent(s) == SubSeq(s, LeadingSpaces(s) + 1, Len(s))

Prologue == <<"<","?","x","m","l"," ","v","e","r","s","i","o","n","=","\"","1",".","0","\""," ","e","n","c","o","d","i","n","g","=","\"","U","T","F","-","8","\""," ","?",">">>
RootOpen == <<"<","s","v","g"," ","x","m","l","n","s","=","\"","h","t","t","p",":","/","/","w","w","w",".","w","3",".","o","r","g","/","2","0","0","0","/","s","v","g","\""," ","v","e","r","s","i","o","n","=","\"","1",".","1","\"",">">>
RootClose == <<"<","/","s","v","g",">">>

IsChildLine(l) == l \notin {Prologue, RootOpen, RootClose}

ChildLines(s) == SelectSeq(Lines(s), IsChildLine)

\* a Document::Render that ran to its end on a stream that took every character
RenderedCleanly == call.op = "Render" /\ ~out.bad /\ ~call.threw

\* an Object::Render of a shape of the given kind
RenderedShape(kind) == call.op = "ObjectRender" /\ call.self.kind = kind /\ ~out.bad

\* what RenderObject wrote: the text between the indent and the newline
Element == SubSeq(out.buf, call.indent + 1, Len(out.buf) - 1)

\* C1: Document.Render writes the prologue line, the root open line, one line
\* per child and the root close line, in this order; for a Document without
\* children the output is exactly the three protocol lines.
C1_RenderProtocol ==
    RenderedCleanly =>
        LET ls == Lines(out.buf)
        IN  /\ Len(ls) = Len(all_obj_) + 3
            /\ ls[1] = Prologue
            /\ ls[2] = RootOpen
            /\ ls[Len(ls)] = RootClose
            /\ out.buf[Len(out.buf)] = "\n"
            /\ (added = <<>> =>
                    out.buf = Prologue \o <<"\n">> \o RootOpen \o <<"\n">> \o RootClose \o <<"\n">>)

\* C2: after Add/AddPtr calls that added s1..sN, Render emits exactly N child
\* lines, the elements of s1..sN in that order: nothing dropped, duplicated
\* or reordered.
C2_AddOrderIsRenderOrder ==
    RenderedCleanly =>
        LET cs == ChildLines(out.buf)
        IN  /\ Len(cs) = Len(added)
            /\ \A i \in 1..Len(added) :
                   StripIndent(cs[i]) = Flatten(RenderObjectOps(added[i]))

\* C3: every child line Render writes is exactly two spaces (the default
\* indent_step, one level below the top-level indent 0), then the child's
\* element, then one newline.
C3_ChildIndent ==
    RenderedCleanly =>
        LET cs == ChildLines(out.buf)
        IN  /\ Len(cs) = Len(all_obj_)
            /\ \A i \in 1..Len(all_obj_) :
                   cs[i] = <<" "," ">> \o Flatten(RenderObjectOps(all_obj_[i]))

\* C4: a Circle renders as <circle cx="{cx}" cy="{cy}" r="{r}"/> with nothing
\* between the closing quote of r and "/>"; center (20,30), radius 15 gives
\* <circle cx="20" cy="30" r="15"/>.
C4_CircleElement ==
    RenderedShape("circle") =>
        LET c == call.self
        IN  /\ Element = <<"<","c","i","r","c","l","e"," ","c","x","=","\"">> \o FmtDouble(c.center_.x)
                          \o <<"\""," ","c","y","=","\"">> \o FmtDouble(c.center_.y)
                          \o <<"\""," ","r","=","\"">> \o FmtDouble(c.radius_) \o <<"\"","/",">">>
            /\ (c.center_ = Point(20, 30) /\ c.radius_ = 15 =>
                    Element = <<"<","c","i","r","c","l","e"," ","c","x","=","\"","2","0","\""," ","c","y","=","\"","3","0","\""," ","r","=","\"","1","5","\"","/",">">>)

RECURSIVE PointList(_)
PointList(pts) ==
    IF pts = <<>> THEN <<>>
    ELSE FmtDouble(Head(pts).x) \o <<",">> \o FmtDouble(Head(pts).y) \o <<" ">>
         \o PointList(Tail(pts))

\* C5: a Polyline renders as <polyline points=", then "x,y " for each point
\* in insertion order, then the closing quote and "/>"; no points give
\* <polyline points=""/>, and (0,0),(10,10),(20,0) give
\* <polyline points="0,0 10,10 20,0 "/>.
C5_PolylineElement ==
    RenderedShape("polyline") =>
        LET pts == call.self.all_point_
        IN  /\ Element = <<"<","p","o","l","y","l","i","n","e"," ","p","o","i","n","t","s","=","\"">> \o PointList(pts) \o <<"\"","/",">">>
            /\ (pts = <<>> => Element = <<"<","p","o","l","y","l","i","n","e"," ","p","o","i","n","t","s","=","\"","\"","/",">">>)
            /\ (pts = <<Point(0, 0), Point(10, 10), Point(20, 0)>> =>
                    Element = <<"<","p","o","l","y","l","i","n","e"," ","p","o","i","n","t","s","=","\"","0",",","0"," ","1","0",",","1","0"," ","2","0",",","0"," ","\"","/",">">>)

\* the escaped form of one character
XmlChar(c) ==
    CASE c = "&"  -> <<"&","a","m","p",";">>
      [] c = "<"  -> <<"&","l","t",";">>
      [] c = ">"  -> <<"&","g","t",";">>
      [] c = "\"" -> <<"&","q","u","o","t",";">>
      [] c = "'"  -> <<"&","a","p","o","s",";">>
      [] OTHER    -> <<c>>

RECURSIVE XmlText(_)
XmlText(s) == IF s = <<>> THEN <<>> ELSE XmlChar(Head(s)) \o XmlText(Tail(s))

\* C6: a Text renders as one <text ...>...</text> element with x, y, dx, dy,
\* font-size always present in that order, then font-family only if
\* SetFontFamily was called, then font-weight only if SetFontWeight was
\* called, then the data as content; position (0,0), offset (0,0), size 12,
\* data "hi" and no family or weight give
\* <text x="0" y="0" dx="0" dy="0" font-size="12">hi</text>.
C6_TextElement ==
    RenderedShape("text") =>
        LET t == call.self
        IN  /\ Element =
                   <<"<","t","e","x","t"," ","x","=","\"">> \o FmtDouble(t.pos_.x) \o <<"\""," ","y","=","\"">> \o FmtDouble(t.pos_.y)
                   \o <<"\""," ","d","x","=","\"">> \o FmtDouble(t.offset_.x)
                   \o <<"\""," ","d","y","=","\"">> \o FmtDouble(t.offset_.y)
                   \o <<"\""," ","f","o","n","t","-","s","i","z","e","=","\"">> \o FmtUnsigned(t.font_size) \o <<"\"">>
                   \o (IF t.font_family_ = <<>> THEN <<>>
                       ELSE <<" ","f","o","n","t","-","f","a","m","i","l","y","=","\"">> \o XmlText(t.font_family_[1]) \o <<"\"">>)
                   \o (IF t.font_weight_ = <<>> THEN <<>>
                       ELSE <<" ","f","o","n","t","-","w","e","i","g","h","t","=","\"">> \o XmlText(t.font_weight_[1]) \o <<"\"">>)
                   \o <<">">> \o XmlText(t.data_) \o <<"<","/","t","e","x","t",">">>
            /\ (t = SetData(SetFontSize(TextDefault, 12), <<"h","i">>) =>
                    Element = <<"<","t","e","x","t"," ","x","=","\"","0","\""," ","y","=","\"","0","\""," ","d","x","=","\"","0","\""," ","d","y","=","\"","0","\""," ","f","o","n","t","-","s","i","z","e","=","\"","1","2","\"",">","h","i","<","/","t","e","x","t",">">>)

C6_Witness ==
    /\ RenderedShape("text")
    /\ call.self = SetData(SetFontSize(TextDefault, 12), <<"h","i">>)

\* the first position >= from at which pat occurs in s, or 0
RECURSIVE IndexOf(_, _, _)
IndexOf(s, pat, from) ==
    IF from + Len(pat) - 1 > Len(s) THEN 0
    ELSE IF SubSeq(s, from, from + Len(pat) - 1) = pat THEN from
    ELSE IndexOf(s, pat, from + 1)

\* the value of the attribute introduced by `intro` (its text up to the next quote)
AttrPart(e, intro) ==
    LET i == IndexOf(e, intro, 1)
        j == IndexOf(e, <<"\"">>, i + Len(intro))
    IN  IF i = 0 \/ j = 0 THEN <<"?">> ELSE SubSeq(e, i + Len(intro), j - 1)

\* the content of the element: after the first ">" and before "</text>"
DataPart(e) ==
    LET i == IndexOf(e, <<">">>, 1)
    IN  IF i = 0 THEN <<"?">> ELSE SubSeq(e, i + 1, Len(e) - Len(<<"<","/","t","e","x","t",">">>))

Entities == <<<<"&","a","m","p",";">>, <<"&","l","t",";">>, <<"&","g","t",";">>, <<"&","q","u","o","t",";">>, <<"&","a","p","o","s",";">>>>

EntityChars == <<"&","<",">","\"","'">>

StartsWith(s, p) == IsPrefix(p, s)

\* no raw special character: the only one to occur is "&", opening an entity
NoRaw(p) ==
    \A i \in 1..Len(p) :
        /\ p[i] \notin {"<", ">", "\"", "'"}
        /\ (p[i] = "&" =>
               \E k \in 1..Len(Entities) : StartsWith(SubSeq(p, i, Len(p)), Entities[k]))

RECURSIVE Unescape(_)
Unescape(p) ==
    IF p = <<>> THEN <<>>
    ELSE IF \E k \in 1..Len(Entities) : StartsWith(p, Entities[k])
    THEN LET k == CHOOSE k \in 1..Len(Entities) : StartsWith(p, Entities[k])
         IN  <<EntityChars[k]>> \o Unescape(SubSeq(p, Len(Entities[k]) + 1, Len(p)))
    ELSE <<Head(p)>> \o Unescape(Tail(p))

EscapedAs(s, part) == NoRaw(part) /\ Unescape(part) = s

\* C7: the part of a rendered Text that corresponds to a string given to
\* SetData, SetFontFamily or SetFontWeight holds none of & < > " ' raw: each
\* occurrence is replaced by its entity, once (decoding the part gives the
\* string back).
C7_EscapeComplete ==
    RenderedShape("text") =>
        LET t == call.self
        IN  /\ EscapedAs(t.data_, DataPart(Element))
            /\ (t.font_family_ # <<>> =>
                    EscapedAs(t.font_family_[1], AttrPart(Element, <<" ","f","o","n","t","-","f","a","m","i","l","y","=","\"">>)))
            /\ (t.font_weight_ # <<>> =>
                    EscapedAs(t.font_weight_[1], AttrPart(Element, <<" ","f","o","n","t","-","w","e","i","g","h","t","=","\"">>)))

C7_Witness ==
    /\ RenderedShape("text")
    /\ call.self.data_ = <<"&">>
    /\ call.self.font_family_ = << <<"<">> >>
    /\ call.self.font_weight_ = << <<"\"">> >>
    /\ DataPart(Element) = <<"&","a","m","p",";">>

\* C8: Render leaves the children and every shape as they were, and a Render
\* that follows a Render with no Add in between writes the same bytes.
C8_RenderIsPure ==
    [][call'.op = "Render" =>
          /\ all_obj_' = all_obj_ /\ objects_' = objects_ /\ added' = added
          /\ (call'.again /\ ~out.bad /\ ~out'.bad => out'.buf = out.buf)]_vars

C8_Witness ==
    /\ RenderedCleanly
    /\ call.again
    /\ Len(all_obj_) = 2
    /\ out.buf = Flatten(DocumentRenderOps(all_obj_))

C10_IndentMultipleOfStep ==
    \A i \in 1..Len(ctxs) :
        ctxs[i].indent_step > 0 =>
            ctxs[i].indent >= 0 /\ ctxs[i].indent % ctxs[i].indent_step = 0

\* C10 amended: in every context reachable by Indented() calls from a
\* constructor call whose indent is itself a non-negative multiple of
\* indent_step (the default 0 is), indent is a non-negative multiple of
\* indent_step whenever indent_step > 0; Indented() returns indent +
\* indent_step with the same sink and step and leaves the receiver unchanged;
\* RenderIndent() writes exactly indent spaces (none when indent < 0).
C10_IndentedKeepsMultiple ==
    /\ [](\A i \in 1..Len(ctxs) :
            (ctxs[1].indent_step > 0 /\ ctxs[1].indent >= 0
                /\ ctxs[1].indent % ctxs[1].indent_step = 0) =>
            (ctxs[i].indent >= 0 /\ ctxs[i].indent % ctxs[i].indent_step = 0))
    /\ [](\A i \in 2..Len(ctxs) :
            /\ ctxs[i].indent = ctxs[i - 1].indent + ctxs[i - 1].indent_step
            /\ ctxs[i].indent_step = ctxs[i - 1].indent_step
            /\ ctxs[i].out = ctxs[i - 1].out)
    /\ [][call'.op = "Indented" =>
            Len(ctxs') = Len(ctxs) + 1 /\ SubSeq(ctxs', 1, Len(ctxs)) = ctxs]_vars
    /\ [](call.op = "RenderIndent" =>
            /\ Len(out.buf) = (IF call.indent > 0 THEN call.indent ELSE 0)
            /\ \A k \in 1..Len(out.buf) : out.buf[k] = " ")

C10_Witness ==
    /\ Len(ctxs) = 3
    /\ ctxs[1] = RenderContext3("os", 2, 0)
    /\ ctxs[3].indent = 4
    /\ call.op = "RenderIndent"
    /\ out.buf = <<" "," "," "," ">>

====
